---- MODULE Spec2Model ----
(***************************************************************************)
(* Model of the weaver toolchain builder (Todd-Fulton/cppdevenv):          *)
(*   - the Execution Result wrapper Ret and Python's and/or chaining,      *)
(*   - the MakeProject pipeline (configure / build / install / run),       *)
(*   - the stage chain of main,                                            *)
(*   - the GitRepo source cache with the flock-guarded commands.           *)
(*                                                                         *)
(* External processes (mkdir, cd, test, configure, make, git, flock) are   *)
(* opaque: they return an exit status, and have the effect on the file     *)
(* system their name says.  run() is modelled by its contract, the Ret of  *)
(* the finished process.  Ret and the chains are those of the weaver       *)
(* package (src/weaver); the stage chain of main exists only in the        *)
(* top-level script, whose copy of Ret.__bool__ lacks the return.          *)
(*                                                                         *)
(* The model follows the control flow the source writes.  It leaves out    *)
(* the Python exceptions the wrappers themselves can raise before that     *)
(* control flow is reached (the copy constructor of Ret, a keyword that    *)
(* subprocess.run does not know, a command passed as a list); cd carries   *)
(* the error of the keyword constructor of Ret next to the result the      *)
(* source writes, and the chains go on with that result; the               *)
(* keywords of flock() are modelled by the options they add.  In           *)
(* parse_args, `cfg = object()` is taken as the attribute container it is  *)
(* used as and `args.arg` as the architecture; git_get_hash, which the     *)
(* script calls and nothing defines, returns the current upstream tip.     *)
(* Exceptions raised by the computation of the resolving functions         *)
(* (default_config_env, hash_build_config) are modelled as their result.   *)
(***************************************************************************)
EXTENDS Integers, Sequences, FiniteSets, TLC

VARIABLES
    hist,        \* pipeline: stage entries of one project instance, oldest first
    chains,      \* pipeline: the and-chains evaluated by the last operation
    mainPc,      \* main: "chain" (evaluating the stage chain), "test", "done"
    stageLog,    \* main: the stages started so far, with their results
    mainOut,     \* main: value of the stage chain (out), once evaluated
    mainErr,     \* main: the value main returns (err)
    fs,          \* source cache: state of each path of the source root
    lock,        \* source cache: holder of the advisory lock on each path
    pc,          \* source cache: position of each run in its operation
    ctx,         \* source cache: the operation each run is in
    cwd,         \* source cache: working directory of each run
    dirs,        \* source cache: pushd.previous_paths of each run
    calls,       \* source cache: operations called so far
    budget,      \* source cache: the runs that call operations
    lastCall,    \* history: the last operation each run completed
    unlocked,    \* history: paths changed by a run not holding their lock
    lookup,      \* source cache: the last ref lookup (get_hash) made
    options,     \* project: the options the class declares
    config,      \* project: the options passed to the construction
    projPc,      \* project: "class", "object" (constructed) or "error"
    projErr,     \* project: the error raised by the construction, if any
    hierarchy,   \* defaults: the script, the attribute and the class bodies
    heap,        \* defaults: content of the list objects the classes hold
    result,      \* defaults: what the last resolution returned
    resolves,    \* defaults: resolutions called so far
    parsed,      \* parse_args: args, the parsed command line of the run
    cfgs,        \* parse_args: the per-component configurations built so far
    parsePc,     \* parse_args: the statement reached (0: not called)
    ident,       \* parse_args: build_hash, prefix, sysroot, or the error
    previous,    \* parse_args: what an earlier run of the program derived
    parses,      \* parse_args: runs of the program started so far
    tips,        \* upstream: the tip hash of each repository
    pushes,      \* upstream: changes of a tip so far
    hashes,      \* hash_build_config: the calls made, with what they gave
    remote,      \* upstream: the branches and tags of the repository
    listing,     \* _list_versions: what the last call returned
    inst,        \* stages: what the instance was constructed as
    selfDict,    \* stages: self.__dict__, the attributes of the instance
    heaps,       \* stages: content of the list objects, per class attribute
    trace,       \* stages: the hooks and external commands run, oldest first
    stageOps,    \* stages: stage methods called so far
    toolchain,   \* components: what parse_args hands to the stages of the run
    objects,     \* components: the instance constructed for each component
    computed     \* components: what configure and install of each computed

pipeVars == <<hist, chains>>
mainVars == <<mainPc, stageLog, mainOut, mainErr>>
repoVars ==
    <<fs, lock, pc, ctx, cwd, dirs, calls, budget, lastCall, unlocked, lookup>>
optVars == <<options, config, projPc, projErr>>
\* everything outside the pipeline, main and the source cache
argVars == <<hierarchy, heap, result, resolves>>
idVars == <<parsed, cfgs, parsePc, ident, previous, parses, tips, pushes, hashes>>
listVars == <<remote, listing>>
stageVars == <<inst, selfDict, heaps, trace, stageOps>>
compVars == <<toolchain, objects, computed>>
lateVars == <<listVars, stageVars, compVars>>
extVars == <<optVars, argVars, idVars, lateVars>>
vars == <<pipeVars, mainVars, repoVars, extVars>>

(***************************************************************************)
(* Bounds                                                                  *)
(***************************************************************************)
MaxOps == 3          \* public pipeline operations called on one instance
MaxCalls == 3        \* source-cache operations called in one behaviour
MaxResolves == 3     \* resolutions of default arguments in one behaviour
MaxParses == 2       \* runs of parse_args in one behaviour
MaxPushes == 1       \* changes of an upstream tip in one behaviour
MaxHashes == 2       \* distinct calls of hash_build_config on its own
MaxStages == 2       \* calls of stage methods with hooks in one behaviour

(***************************************************************************)
(* utils.py: exit statuses and the Execution Result                        *)
(***************************************************************************)
SUCCESS == 0
FAILURE == 1
ENOENT == 2

\* exit statuses an external process may return
ExitCodes == {SUCCESS, FAILURE, ENOENT}

\* Ret: argument vector (abstracted to the name of the step) and exit status
Ret(args, returncode) == [args |-> args, returncode |-> returncode]

NoRet == [args |-> "none", returncode |-> -1]

NoError == "none"
IndexError == "IndexError"

\* Ret(args=..., returncode=..., stdout=..., stderr=...), keywords only:
\* the first test of __init__ fails on the keywords and the second reads
\* args[0] of the empty tuple of positional arguments
Ret_keywords(ret) == [error |-> IndexError, ret |-> ret]

\* Ret.__bool__ with the truth value reversed: true on success
Ret_bool_success(r) == r.returncode = SUCCESS

\* Ret.__bool__: "Return true if we contain an error."
Ret_bool(r) == r.returncode # SUCCESS

\* Python's  s[i] and s[i+1] and ... : the operands evaluated, in order.
\* An operand is evaluated only when every operand before it is truthy;
\* the value of the expression is the last operand evaluated.
RECURSIVE AndChain(_, _)
AndChain(s, i) ==
    IF i >= Len(s) THEN <<s[i]>>
    ELSE IF Ret_bool(s[i]) THEN <<s[i]>> \o AndChain(s, i + 1)
    ELSE <<s[i]>>

Last(s) == s[Len(s)]

\* one evaluated chain: its name, the operands evaluated, its value
Chain(name, operands) ==
    [name |-> name, operands |-> operands, value |-> Last(operands)]

(***************************************************************************)
(* MakeProject: hooks and stages                                           *)
(***************************************************************************)
pre_config == Ret("pre_config", SUCCESS)
post_config == Ret("post_config", SUCCESS)
pre_build == Ret("pre_build", SUCCESS)
post_build == Ret("post_build", SUCCESS)
pre_install == Ret("pre_install", SUCCESS)
post_install == Ret("post_install", SUCCESS)

\* outcomes of the external processes of a stage, should they be run
Outcomes(n) == [1..n -> ExitCodes]

\* MakeProject.configure: o gives the exit status of mkdir, cd, configure
configure(o) ==
    Chain("configure",
          AndChain(<<Ret("mkdir", o[1]), Ret("cd", o[2]), pre_config,
                     Ret("configure_cmd", o[3]), post_config>>, 1))

\* MakeProject.build: o gives the exit status of cd, make
build(o) ==
    Chain("build",
          AndChain(<<Ret("cd", o[1]), pre_build, Ret("make", o[2]),
                     post_build>>, 1))

\* MakeProject.install: o gives the exit status of cd, make install
install(o) ==
    Chain("install",
          AndChain(<<Ret("cd", o[1]), pre_install, Ret("make_install", o[2]),
                     post_install>>, 1))

\* a stage as an operand of a chain: its value, tagged with the stage chain
StageOperand(c) ==
    [args |-> c.name, returncode |-> c.value.returncode, chain |-> c]

\* MakeProject.run: configure and build and install, each evaluated lazily;
\* c, b, i are what the stage does if it is entered
run(c, b, i) ==
    AndChain(<<StageOperand(c), StageOperand(b), StageOperand(i)>>, 1)

Entry(c, via) ==
    [stage |-> c.name, steps |-> c.operands, value |-> c.value, via |-> via]

RECURSIVE Entries(_, _)
Entries(ops, i) ==
    IF i > Len(ops) THEN <<>>
    ELSE <<Entry(ops[i].chain, "run")>> \o Entries(ops, i + 1)

(***************************************************************************)
(* Pipeline actions: the public operations of one project instance         *)
(***************************************************************************)
\* the results a stage can have, over all outcomes of its external processes
ConfigureResults == {configure(o) : o \in Outcomes(3)}
BuildResults == {build(o) : o \in Outcomes(2)}
InstallResults == {install(o) : o \in Outcomes(2)}

Configure ==
    /\ projPc = "object"
    /\ Len(hist) < MaxOps
    /\ \E c \in ConfigureResults :
         /\ hist' = Append(hist, Entry(c, "call"))
         /\ chains' = {c}
    /\ UNCHANGED <<mainVars, repoVars, extVars>>

Build ==
    /\ projPc = "object"
    /\ Len(hist) < MaxOps
    /\ \E c \in BuildResults :
         /\ hist' = Append(hist, Entry(c, "call"))
         /\ chains' = {c}
    /\ UNCHANGED <<mainVars, repoVars, extVars>>

Install ==
    /\ projPc = "object"
    /\ Len(hist) < MaxOps
    /\ \E c \in InstallResults :
         /\ hist' = Append(hist, Entry(c, "call"))
         /\ chains' = {c}
    /\ UNCHANGED <<mainVars, repoVars, extVars>>

Run ==
    /\ projPc = "object"
    /\ Len(hist) < MaxOps
    /\ \E c \in ConfigureResults, b \in BuildResults, i \in InstallResults :
         LET ops == run(c, b, i) IN
         /\ hist' = hist \o Entries(ops, 1)
         /\ chains' = {ops[k].chain : k \in 1..Len(ops)}
                        \cup {Chain("run", [k \in 1..Len(ops) |->
                                   Ret(ops[k].args, ops[k].returncode)])}
    /\ UNCHANGED <<mainVars, repoVars, extVars>>

(***************************************************************************)
(* main: the stage chain                                                   *)
(***************************************************************************)
\* the operands of the chain of main, in order
Stages == <<"libgmp", "libmpfr", "libmpc", "libisl", "binutils",
            "static_gcc", "glibc", "gcc">>

\* the stages main starts: the chain of the script, the one GCC(...).run()
\* of src/weaver
StagesOf(layout) == IF layout = "script" THEN Stages ELSE <<"gcc">>

\* the per-component configuration main passes to a stage, next to
\* cfg.common_cfg
main_cfg(layout, stage) ==
    IF layout = "weaver" THEN "libgmp_cfg"
    ELSE CASE stage = "libgmp" -> "libgmp_cfg"
           [] stage = "libmpfr" -> "libmpc_cfg"
           [] stage = "libmpc" -> "libmpc_cfg"
           [] stage = "libisl" -> "libisl_cfg"
           [] stage = "binutils" -> "binutils_cfg"
           [] stage = "static_gcc" -> "static_gcc_cfg"
           [] stage = "glibc" -> "glibc_cfg"
           [] stage = "gcc" -> "gcc_cfg"

\* build_<stage>: drives one stage and returns its Execution Result
build_stage(name, rc) == Ret(name, rc)

\* evaluation of the next operand of the chain of main
MainStage ==
    /\ mainPc = "chain"
    /\ \E rc \in ExitCodes :
         LET k == Len(stageLog) + 1
             r == build_stage(Stages[k], rc) IN
         /\ stageLog' = Append(stageLog, r)
         /\ IF k < Len(Stages) /\ Ret_bool(r)
              THEN /\ mainPc' = "chain"
                   /\ mainOut' = mainOut
              ELSE /\ mainPc' = "test"
                   /\ mainOut' = r
    /\ UNCHANGED <<mainErr, pipeVars, repoVars, extVars>>

\* if out := (...): err = out.returncode; report_error(out) ... return err
MainReturn ==
    /\ mainPc = "test"
    /\ mainErr' = IF Ret_bool(mainOut) THEN mainOut.returncode ELSE 0
    /\ mainPc' = "done"
    /\ UNCHANGED <<stageLog, mainOut, pipeVars, repoVars, extVars>>

(***************************************************************************)
(* utils.py: external helpers used by the source cache                     *)
(***************************************************************************)
\* a path is absent, an empty directory, or a populated repository
PathStates == {"absent", "dir", "repo"}

\* mkdir without -p: fails on a path that exists
mkdir_no_p(st) ==
    IF st # "absent" THEN {[state |-> st, ret |-> Ret("mkdir", FAILURE)]}
    ELSE {[state |-> "dir", ret |-> Ret("mkdir", SUCCESS)],
          [state |-> "absent", ret |-> Ret("mkdir", FAILURE)]}

\* mkdir(path) = mkdir -p: the outcomes on a path in state st.  A path that
\* exists is left alone; an absent one is created unless the process fails.
mkdir(st) ==
    IF st # "absent" THEN {[state |-> st, ret |-> Ret("mkdir", SUCCESS)]}
    ELSE {[state |-> "dir", ret |-> Ret("mkdir", SUCCESS)],
          [state |-> "absent", ret |-> Ret("mkdir", FAILURE)]}

\* path_exists / run(["/usr/bin/test", "-d", path])
path_exists(st) == Ret("test", IF st # "absent" THEN SUCCESS ELSE FAILURE)

\* cd(path): os.chdir(path) and the Ret made of its outcome, FileNotFoundError
\* caught: the new working directory, the result the call writes and the
\* error constructing it raises
cd(from, to, st) ==
    IF st # "absent"
      THEN [cwd |-> to] @@ Ret_keywords(Ret("cd", SUCCESS))
    ELSE [cwd |-> from] @@ Ret_keywords(Ret("cd", ENOENT))

\* pushd(path): previous_paths.append(getcwd()); return cd(path)
pushd(stack, from, to, st) ==
    [dirs |-> Append(stack, from)] @@ cd(from, to, st)

\* popd(): cd(previous_paths.pop()), or a failure on an empty stack
popd(stack, from) ==
    IF stack # <<>>
      THEN [dirs |-> SubSeq(stack, 1, Len(stack) - 1)]
             @@ cd(from, stack[Len(stack)], "dir")
      ELSE [dirs |-> stack, cwd |-> from]
             @@ Ret_keywords(Ret("popd", FAILURE))

\* the option each named parameter of flock() adds when it is set
FlockOption ==
    [no_fork |-> "-n", exclusive |-> "-x", nonblock |-> "-n", close |-> "-o",
     shared |-> "-s", unlock |-> "-u"]

\* flock(): the options built from the keywords of the call.  A keyword that
\* is no named parameter of flock goes to **kwargs and adds no option.
flock_options(kw) == {FlockOption[k] : k \in kw \cap DOMAIN FlockOption}

\* flock_try(): flock(path, cmd, kwargs=kwargs | {"nonblock": True}, **kwargs)
flock_try(kw) == flock_options(kw \cup {"kwargs"})

\* the keywords the callers pass: clone() and update() pass exlusive=True
CallerKw == {"exlusive"}

NoRun == "none"

\* end of the flock process with the lock kept when the command failed
flock_exit_keep_on_failure(lk, p, ret) ==
    IF Ret_bool(ret) THEN lk ELSE [lk EXCEPT ![p] = NoRun]

\* end of the flock process: run() returns when flock and the command it
\* guards have exited, which drops the lock whatever the exit status
flock_exit(lk, p, ret) == [lk EXCEPT ![p] = NoRun]

\* the git clone command on a path in state st: it fails on a populated path
git_clone(st) ==
    IF st = "repo" THEN {[state |-> st, ret |-> Ret("git_clone", FAILURE)]}
    ELSE {[state |-> "repo", ret |-> Ret("git_clone", SUCCESS)]}
           \cup {[state |-> st, ret |-> Ret("git_clone", rc)] :
                     rc \in ExitCodes \ {SUCCESS}}

(***************************************************************************)
(* GitRepo: the source cache                                               *)
(***************************************************************************)
Runs == {"A", "B"}
Versions == {"v1", "v2"}
Mirror == "mirror"
Paths == {Mirror} \cup Versions
Home == "home"

\* clone() without the short circuit: the locked command always runs
clone_always_locks(r) == "flock_try"

\* clone(): mkdir(output) and flock_try(output, cmd, exlusive=True)
clone_after_mkdir(r) == IF Ret_bool(r) THEN "flock_try" ELSE "return"

\* update(): run(test -d) or cls.initial_fetch()
update_after_test(r) == IF Ret_bool(r) THEN "and" ELSE "initial_fetch"

NoCall == [op |-> "none", path |-> Mirror, ret |-> -1, clones |-> 0,
           before |-> "absent", conc |-> FALSE, after |-> <<>>,
           again |-> FALSE, same |-> FALSE]

\* entry of run r into operation op on path p
Begin(r, op, p) ==
    /\ pc[r] = "idle"
    /\ r \in budget
    /\ calls < MaxCalls
    /\ calls' = calls + 1
    /\ ctx' = [s \in Runs |->
                 IF s = r
                   THEN [op |-> op, path |-> p, clones |-> 0,
                         before |-> fs[p],
                         conc |-> \E t \in Runs \ {r} : pc[t] # "idle"]
                   ELSE IF pc[s] # "idle" THEN [ctx[s] EXCEPT !.conc = TRUE]
                   ELSE ctx[s]]

\* return of run r from its operation with value ret; c is its context, f
\* the source cache it leaves.  The record of the call notes whether the run
\* called the same operation again after a success (again) and whether the
\* source cache is as that earlier call left it (same).
Finish(r, ret, c, f) ==
    /\ pc' = [pc EXCEPT ![r] = "idle"]
    /\ lastCall' = [lastCall EXCEPT ![r] =
                      [op |-> c.op, path |-> c.path, ret |-> ret.returncode,
                       clones |-> c.clones, before |-> c.before,
                       conc |-> c.conc, after |-> f,
                       again |-> /\ lastCall[r].op = c.op
                                 /\ lastCall[r].path = c.path
                                 /\ lastCall[r].ret = SUCCESS,
                       same |-> f = lastCall[r].after]]

Goto(r, label) ==
    /\ pc' = [pc EXCEPT ![r] = label]
    /\ UNCHANGED lastCall

\* update(): (... or ...) and pushd(output)
AfterOr(r, x, c, f) ==
    IF Ret_bool(x) THEN Goto(r, "pushd") ELSE Finish(r, x, c, f)

\* clone() has returned x: to the caller of initial_fetch / fetch_version,
\* or into the chain of update()
AfterClone(r, x, c, f) ==
    IF c.op = "update" THEN AfterOr(r, x, c, f) ELSE Finish(r, x, c, f)

\* GitRepo.initial_fetch: clone("--bare", output = SOURCE_DIR/<name>.git)
initial_fetch(r) ==
    /\ Begin(r, "initial_fetch", Mirror)
    /\ Goto(r, "mkdir")
    /\ UNCHANGED <<extVars, pipeVars, mainVars, lookup,
                     fs, lock, cwd, dirs, budget, unlocked>>

\* GitRepo.fetch_version: shallow_clone(branch = version)
fetch_version(r, v) ==
    /\ Begin(r, "fetch_version", v)
    /\ Goto(r, "mkdir")
    /\ UNCHANGED <<extVars, pipeVars, mainVars, lookup,
                     fs, lock, cwd, dirs, budget, unlocked>>

\* GitRepo.update: entry
update(r) ==
    /\ Begin(r, "update", Mirror)
    /\ Goto(r, "test")
    /\ UNCHANGED <<extVars, pipeVars, mainVars, lookup,
                     fs, lock, cwd, dirs, budget, unlocked>>

\* clone(): mkdir(output)
CloneMkdir(r) ==
    /\ pc[r] = "mkdir"
    /\ LET p == ctx[r].path IN
       \E o \in mkdir(fs[p]) :
         /\ fs' = [fs EXCEPT ![p] = o.state]
         /\ unlocked' = IF o.state # fs[p] /\ lock[p] # r
                          THEN unlocked \cup {p} ELSE unlocked
         /\ IF clone_after_mkdir(o.ret) = "flock_try"
              THEN Goto(r, "flock_try")
              ELSE AfterClone(r, o.ret, ctx[r], fs')
    /\ UNCHANGED <<extVars, pipeVars, mainVars, lookup,
                     lock, ctx, cwd, dirs, calls, budget>>

\* flock(1) started on path p by run r: it takes the free lock and starts
\* the command (next), or with -n gives up on a held lock (busy)
Acquire(r, opts, next, busy) ==
    LET p == ctx[r].path IN
    /\ lock[p] = NoRun \/ "-n" \in opts
    /\ IF lock[p] = NoRun
         THEN /\ lock' = [lock EXCEPT ![p] = r]
              /\ Goto(r, next)
         ELSE /\ lock' = lock
              /\ busy

\* clone(): flock_try(output, cmd, exlusive=True)
CloneFlockTry(r) ==
    /\ pc[r] = "flock_try"
    /\ Acquire(r, flock_try(CallerKw), "cloning",
               AfterClone(r, Ret("flock", FAILURE), ctx[r], fs))
    /\ UNCHANGED <<extVars, pipeVars, mainVars, lookup,
                     fs, ctx, cwd, dirs, calls, budget, unlocked>>

\* the guarded git clone exits and flock with it
CloneExit(r) ==
    /\ pc[r] = "cloning"
    /\ LET p == ctx[r].path
           c == [ctx[r] EXCEPT !.clones = @ + 1] IN
       \E o \in git_clone(fs[p]) :
         /\ fs' = [fs EXCEPT ![p] = o.state]
         /\ unlocked' = IF o.state # fs[p] /\ lock[p] # r
                          THEN unlocked \cup {p} ELSE unlocked
         /\ ctx' = [ctx EXCEPT ![r] = c]
         /\ lock' = flock_exit(lock, p, o.ret)
         /\ AfterClone(r, o.ret, c, fs')
    /\ UNCHANGED <<extVars, pipeVars, mainVars, lookup,
                   cwd, dirs, calls, budget>>

\* update(): run(["/usr/bin/test", "-d", output]) or cls.initial_fetch()
UpdateTest(r) ==
    /\ pc[r] = "test"
    /\ LET x == path_exists(fs[Mirror]) IN
       IF update_after_test(x) = "initial_fetch"
         THEN Goto(r, "mkdir")
         ELSE AfterOr(r, x, ctx[r], fs)
    /\ UNCHANGED <<extVars, pipeVars, mainVars, lookup,
                     fs, lock, ctx, cwd, dirs, calls, budget, unlocked>>

\* update(): ... and pushd(output) and flock(...)
UpdatePushd(r) ==
    /\ pc[r] = "pushd"
    /\ LET o == pushd(dirs[r], cwd[r], Mirror, fs[Mirror]) IN
       /\ dirs' = [dirs EXCEPT ![r] = o.dirs]
       /\ cwd' = [cwd EXCEPT ![r] = o.cwd]
       /\ IF Ret_bool(o.ret) THEN Goto(r, "flock")
                             ELSE Finish(r, o.ret, ctx[r], fs)
    /\ UNCHANGED <<extVars, pipeVars, mainVars, lookup,
                     fs, lock, ctx, calls, budget, unlocked>>

\* update(): flock(output, ["git", "fetch", remote_url], exlusive=True)
UpdateFlock(r) ==
    /\ pc[r] = "flock"
    /\ Acquire(r, flock_options(CallerKw), "fetching", Goto(r, "popd"))
    /\ UNCHANGED <<extVars, pipeVars, mainVars, lookup,
                     fs, ctx, cwd, dirs, calls, budget, unlocked>>

\* the guarded git fetch exits and flock with it; ... and popd()
FetchExit(r) ==
    /\ pc[r] = "fetching"
    /\ \E rc \in ExitCodes :
         LET x == Ret("git_fetch", rc) IN
         /\ lock' = flock_exit(lock, Mirror, x)
         /\ IF Ret_bool(x) THEN Goto(r, "popd") ELSE Finish(r, x, ctx[r], fs)
    /\ UNCHANGED <<extVars, pipeVars, mainVars, lookup,
                     fs, ctx, cwd, dirs, calls, budget, unlocked>>

\* update(): ... and popd()
UpdatePopd(r) ==
    /\ pc[r] = "popd"
    /\ LET o == popd(dirs[r], cwd[r]) IN
       /\ dirs' = [dirs EXCEPT ![r] = o.dirs]
       /\ cwd' = [cwd EXCEPT ![r] = o.cwd]
       /\ Finish(r, o.ret, ctx[r], fs)
    /\ UNCHANGED <<extVars, pipeVars, mainVars, lookup,
                     fs, lock, ctx, calls, budget, unlocked>>

CalledProcessError == "CalledProcessError"

NoLookup == [done |-> FALSE, present |-> FALSE, repo |-> "none",
             error |-> NoError]

\* GitRepo.get_hash: the repository the ref is looked up in,
\*   if path_exists(cls.bare_path): repo = cls.bare_path
\*   else: repo = cls.remote_url
\* on a bare path in state st
get_hash(st) ==
    IF Ret_bool(path_exists(st)) THEN "bare_path" ELSE "remote_url"

\* GitRepo.get_hash(ref): git ls-remote on the repository chosen;
\* check_returncode() raises when it failed
GetHash(r) ==
    /\ pc[r] = "idle"
    /\ r \in budget
    /\ calls < MaxCalls
    /\ calls' = calls + 1
    /\ \E rc \in {SUCCESS, FAILURE} :
         lookup' = [done |-> TRUE, present |-> fs[Mirror] # "absent",
                    repo |-> get_hash(fs[Mirror]),
                    error |-> IF rc = SUCCESS THEN NoError
                              ELSE CalledProcessError]
    /\ UNCHANGED <<extVars, pipeVars, mainVars, fs, lock, pc, ctx, cwd, dirs,
                   budget, lastCall, unlocked>>

(***************************************************************************)
(* MakeProject: declared options and construction                          *)
(***************************************************************************)
OptionNames == {"opt_a", "opt_b"}

\* Option(name, dependencies = ..., conflicts = ...): what one option declares
Option(dependencies, conflicts) ==
    [dependencies |-> dependencies, conflicts |-> conflicts]

\* the declarations a class may make: an option never names itself
Declarations ==
    {d \in [OptionNames -> {Option(dep, con) : dep \in SUBSET OptionNames,
                                               con \in SUBSET OptionNames}] :
        \A o \in OptionNames : /\ o \notin d[o].dependencies
                               /\ o \notin d[o].conflicts
                               /\ d[o].dependencies \cap d[o].conflicts = {}}

NoDeclaration == [o \in OptionNames |-> Option({}, {})]

\* MakeProject._handle_conflicts(configure_args): the body is `pass`
handle_conflicts(declared, configure_args) == NoError

\* MakeProject.__init__: type(self)._handle_conflicts(config), then the fields
MakeProject_init ==
    /\ projPc = "class"
    /\ \E cfg \in SUBSET OptionNames :
         LET err == handle_conflicts(options, cfg) IN
         /\ projErr' = err
         /\ projPc' = IF err = NoError THEN "object" ELSE "error"
         /\ config' = cfg
    /\ UNCHANGED <<options, pipeVars, mainVars, repoVars, argVars, idVars,
                   lateVars>>

(***************************************************************************)
(* MakeProject: default arguments along the class hierarchy                *)
(***************************************************************************)
\* the two copies of the code: src/build-gnu-toolchain.py and src/weaver
Layouts == {"script", "weaver"}

\* the class attributes resolved: _default_config, _default_make_args,
\* _default_install_args
Kinds == {"config", "make_args", "install_args"}

\* a component class and its ancestors, most specific first
Classes == <<"LibGMP", "ToolchainSupportLib", "MakeProject">>
ClassSet == {Classes[i] : i \in 1..Len(Classes)}

Index(c) == CHOOSE i \in 1..Len(Classes) : Classes[i] = c

\* cls.__bases__: the one base that has the resolving method; the bases of
\* MakeProject (object, or Project and Repo) have none
Base(c) == Classes[Index(c) + 1]
HasMethod(c) == c \in ClassSet
Root == Classes[Len(Classes)]

TypeError == "TypeError"

\* what a class body does about an attribute: nothing, or assign a value
Undeclared == [declared |-> FALSE, value |-> <<>>]
Declared(v) == [declared |-> TRUE, value |-> v]
UndeclaredEnv == [declared |-> FALSE, value |-> {}]

\* what the body of a class may assign to the list attribute
ListBodies(c) ==
    IF c = "LibGMP" THEN {Undeclared, Declared(<<"--enable-cxx">>)}
    ELSE IF c = "ToolchainSupportLib"
      THEN {Undeclared, Declared(<<"--disable-static", "--prefix={prefix}">>)}
    ELSE {Undeclared}

\* a dict is the set of its items; {} is the empty dict
EnvBodies(c) ==
    IF c = "LibGMP" THEN {UndeclaredEnv, Declared({<<"CC", "clang">>})}
    ELSE IF c = "ToolchainSupportLib"
      THEN {UndeclaredEnv,
            Declared({<<"CC", "{cc}">>, <<"LD", "{linker}">>})}
    ELSE {UndeclaredEnv}

\* keyword defaults without the job-count template
KeywordDefault_no_jobs(kind) == <<>>

\* the defaults of the keywords of __init_subclass__ (weaver), which are
\* also what the body of MakeProject assigns in the script
KeywordDefault(kind) == IF kind = "make_args" THEN <<"-j{cpus}">> ELSE <<>>

\* the body of MakeProject: assignments in the script, annotations only in
\* weaver
RootBody(layout, v, none) == IF layout = "script" THEN Declared(v) ELSE none

Hierarchies ==
    {[layout |-> l, kind |-> k,
      lists |-> [c \in ClassSet |->
                   IF c = Root THEN RootBody(l, KeywordDefault(k), Undeclared)
                   ELSE b[c]],
      envs |-> [c \in ClassSet |->
                   IF c = Root THEN RootBody(l, {}, UndeclaredEnv) ELSE e[c]]] :
        l \in Layouts, k \in Kinds,
        b \in [ClassSet \ {Root} -> UNION {ListBodies(c) : c \in ClassSet}],
        e \in [ClassSet \ {Root} -> UNION {EnvBodies(c) : c \in ClassSet}]}

\* the hierarchies whose classes assign what the source lets them assign
WellFormed(h) ==
    \A c \in ClassSet \ {Root} :
        h.lists[c] \in ListBodies(c) /\ h.envs[c] \in EnvBodies(c)

\* the list objects: one per class body, and the keyword default shared by
\* every class that __init_subclass__ has run for
Shared == "keyword_default"
Objects == ClassSet \cup {Shared}
Fresh == "fresh"
Unbound == "unbound"

\* MakeProject.__init_subclass__: cls._default_... = <keyword>; no class of
\* the source passes the keyword, so every subclass gets the shared default
\* object in place of what its body assigned.  The script has no such hook.
init_subclass(h, c, body) ==
    IF h.layout = "weaver"
      THEN (IF c = Root THEN Unbound ELSE Shared)
      ELSE body

\* the object cls.__dict__ holds for the attribute, if any
OwnList(h, c) ==
    init_subclass(h, c, IF h.lists[c].declared THEN c ELSE Unbound)

\* getattr(cls, "_default_...", []): the object found along the bases, or a
\* fresh empty list
RECURSIVE getattr_list(_, _)
getattr_list(h, c) ==
    IF OwnList(h, c) # Unbound THEN OwnList(h, c)
    ELSE IF c = Root THEN Fresh
    ELSE getattr_list(h, Base(c))

InitialHeap(h) ==
    [o \in Objects |->
        IF o = Shared THEN KeywordDefault(h.kind)
        ELSE h.lists[o].value]

\* getattr(c, "default_config", lambda: [])() in weaver: default_config is a
\* property there, and the property object of a class is not callable
CallsProperty(h, c) ==
    h.layout = "weaver" /\ h.kind = "config" /\ HasMethod(c)

\* default_config / default_make_args / default_install_args of class c on
\* heap m:   ret = getattr(cls, ..., []); for c in cls.__bases__: ret += c...()
\* `+=` extends the list object in place; the value returned is that object.
RECURSIVE default_args(_, _, _)
default_args(h, c, m) ==
    LET obj == getattr_list(h, c)
        inh == IF c = Root
                 THEN [value |-> <<>>, heap |-> m, error |-> NoError]
               ELSE IF CallsProperty(h, Base(c))
                 THEN [value |-> <<>>, heap |-> m, error |-> TypeError]
               ELSE default_args(h, Base(c), m)
    IN IF inh.error # NoError THEN inh
       ELSE IF obj = Fresh THEN inh
       ELSE LET ret == inh.heap[obj] \o inh.value
            IN [value |-> ret, heap |-> [inh.heap EXCEPT ![obj] = ret],
                error |-> NoError]

\* dict | dict: the right operand wins on a key of both
Merge(a, b) ==
    b \cup {item \in a : \A other \in b : other[1] # item[1]}

\* getattr(cls, "_default_config_env", {})
RECURSIVE getattr_env(_, _)
getattr_env(h, c) ==
    LET own == init_subclass(h, c, IF h.envs[c].declared THEN c ELSE Unbound)
    IN IF own = Shared THEN {}
       ELSE IF own # Unbound THEN h.envs[c].value
       ELSE IF c = Root THEN {}
       ELSE getattr_env(h, Base(c))

\* default_config_env of class c:
\*   for c in cls.__bases__: ret = getattr(c, ..., lambda: [])() | ret
\* a base without the method yields the list [], and list | dict raises
RECURSIVE default_config_env(_, _)
default_config_env(h, c) ==
    IF c = Root THEN [value |-> {}, error |-> TypeError]
    ELSE LET inh == default_config_env(h, Base(c))
         IN IF inh.error # NoError THEN inh
            ELSE [value |-> Merge(inh.value, getattr_env(h, c)),
                  error |-> NoError]

Archs == {"x86_64", "aarch64"}

\* ARCH_SPECIFIC_CONFIGS[component][arch]: every list of the table is empty
ARCH_SPECIFIC_CONFIGS == [a \in Archs |-> <<>>]

ExtraConfigs == {<<>>, <<"--enable-lto">>}

\* cfg.format(**self.__dict__): the template with the fields of the instance
format(cfg) == [template |-> cfg, fields |-> "self"]

\* MakeProject.configure: configure_args =
\*   [cfg.format(**self.__dict__) for cfg in self.default_config() + self.config]
configure_args(defaults, cfg) ==
    LET all == defaults \o cfg IN [i \in 1..Len(all) |-> format(all[i])]

NoResult ==
    [op |-> "none", cls |-> Root, value |-> <<>>, env |-> {},
     error |-> NoError, generic |-> <<>>, override |-> <<>>]

\* a call of default_config(), default_make_args() or default_install_args()
DefaultArgs ==
    /\ resolves < MaxResolves
    /\ \E c \in ClassSet :
         LET r == default_args(hierarchy, c, heap) IN
         /\ heap' = r.heap
         /\ result' = [NoResult EXCEPT !.op = "default_args", !.cls = c,
                                       !.value = r.value, !.error = r.error]
    /\ resolves' = resolves + 1
    /\ UNCHANGED <<hierarchy, pipeVars, mainVars, repoVars, optVars, idVars,
                   lateVars>>

\* a call of default_config_env()
DefaultConfigEnv ==
    /\ resolves < MaxResolves
    /\ \E c \in ClassSet :
         LET r == default_config_env(hierarchy, c) IN
         result' = [NoResult EXCEPT !.op = "default_config_env", !.cls = c,
                                    !.env = r.value, !.error = r.error]
    /\ resolves' = resolves + 1
    /\ UNCHANGED <<hierarchy, heap, pipeVars, mainVars, repoVars, optVars,
                   idVars, lateVars>>

\* the argument list of configure() for an instance of class c constructed
\* with config = ARCH_SPECIFIC_CONFIGS[...][arch] + extra_config
ConfigureArgs ==
    /\ resolves < MaxResolves
    /\ hierarchy.kind = "config"
    /\ \E c \in ClassSet, arch \in Archs, extra_config \in ExtraConfigs :
         LET cfg == ARCH_SPECIFIC_CONFIGS[arch] \o extra_config
             r == default_args(hierarchy, c, heap) IN
         /\ heap' = r.heap
         /\ result' = [NoResult EXCEPT
                         !.op = "configure_args", !.cls = c,
                         !.value = IF r.error = NoError
                                     THEN configure_args(r.value, cfg)
                                     ELSE <<>>,
                         !.error = r.error,
                         !.generic = r.value, !.override = cfg]
    /\ resolves' = resolves + 1
    /\ UNCHANGED <<hierarchy, pipeVars, mainVars, repoVars, optVars, idVars,
                   lateVars>>

(***************************************************************************)
(* Version resolution, build identity and parse_args                       *)
(***************************************************************************)
None == "None"

\* the repositories a version is resolved against, and their tips
Repos == {"linux", "glibc", "gcc", "binutils"}
Hashes == {"h1", "h2"}
NextHash(h) == IF h = "h1" THEN "h2" ELSE "h1"

\* str.lower()
lower(version) == IF version = "MAIN" THEN "main" ELSE version

MostRecent == {"master", "latest", "main"}

\* git_get_hash(name): the hash of the upstream tip at the time of the call
git_get_hash(repo, t) == t[repo]

\* get_kernel_version / get_glibc_version / get_gcc_version /
\* get_binutils_version
get_version(repo, version, t) ==
    IF lower(version) \in MostRecent THEN git_get_hash(repo, t) ELSE version

\* get_libgmp_version .. get_libisl_version: the body is `pass`
get_lib_version(version) == None

\* the configurations parse_args builds, in order: attribute of cfg, key,
\* the repository resolved against (None for the support libraries), the
\* command-line argument read and the one holding the extra options
CfgEntries ==
    <<[cfg |-> "libgmp_cfg", key |-> "version", repo |-> None,
       arg |-> "libgmp_version", extra |-> None],
      [cfg |-> "libmpfr_cfg", key |-> "veresion", repo |-> None,
       arg |-> "libmpfr_version", extra |-> None],
      [cfg |-> "libmpc_cfg", key |-> "version", repo |-> None,
       arg |-> "libmpc_version", extra |-> None],
      [cfg |-> "libisl_cfg", key |-> "version", repo |-> None,
       arg |-> "libisl_version", extra |-> None],
      [cfg |-> "kernel_hdr_cfg", key |-> "version", repo |-> "linux",
       arg |-> "kernel_version", extra |-> None],
      [cfg |-> "glibc_cfg", key |-> "version", repo |-> "glibc",
       arg |-> "glibc_version", extra |-> None],
      [cfg |-> "gcc_cfg", key |-> "version", repo |-> "gcc",
       arg |-> "gcc_version", extra |-> "gcc_extra_config"],
      [cfg |-> "static_gcc_cfg", key |-> "version", repo |-> "gcc",
       arg |-> "gcc_version", extra |-> None],
      [cfg |-> "binutils_cfg", key |-> "version", repo |-> "binutils",
       arg |-> "binutils_version", extra |-> "binutils_extra_config"]>>

\* the command lines considered: the versions left at "latest" but for gcc
\* and libgmp,
\* no extra option but for gcc
ArgSets ==
    [arch : Archs, org : {"weaver"}, cpus : {8},
     gcc_extra_config : ExtraConfigs, binutils_extra_config : {<<>>},
     libgmp_version : {"latest", "6.3.0"}, libmpfr_version : {"latest"},
     libmpc_version : {"latest"}, libisl_version : {"latest"},
     kernel_version : {"latest"}, glibc_version : {"latest"},
     gcc_version : {"MAIN", "12.2.0"}, binutils_version : {"latest"}]

\* make_triplet(arch, org): f"{arch}-{org}-{os}"
make_triplet(arch, org) == <<arch, org, "linux-gnu">>

\* cfg.common_cfg as parse_args fills it before the identity is derived
common_cfg(a) ==
    [target |-> make_triplet(a.arch, a.org), host |-> None, build |-> None,
     arch |-> a.arch, cpus |-> a.cpus, org |-> a.org]

\* str(arg): a text (str), not bytes; texts are sequences of characters
str(arg) == [type |-> "str", text |-> arg]

\* sha256(): the empty digest state
sha256 == [fed |-> <<>>, error |-> NoError]

\* h.update(data): only a bytes-like object can be hashed
sha256_update(h, data) ==
    IF h.error # NoError THEN h
    ELSE IF data.type = "bytes" THEN [h EXCEPT !.fed = @ \o data.text]
    ELSE [h EXCEPT !.error = TypeError]

\* h.digest(): one digest per stream of bytes fed
digest(h) == <<"sha256", h.fed>>

\* hash_build_config(*argv):  for arg in argv: h.update(str(arg))
RECURSIVE hash_loop(_, _, _)
hash_loop(h, argv, i) ==
    IF i > Len(argv) \/ h.error # NoError THEN h
    ELSE hash_loop(sha256_update(h, str(argv[i])), argv, i + 1)

hash_build_config(argv) ==
    LET h == hash_loop(sha256, argv, 1)
    IN [digest |-> IF h.error = NoError THEN digest(h) ELSE <<>>,
        error |-> h.error]

\* the argument tuples hash_build_config is applied to on its own
ArgvSets ==
    {<<>>, <<<<"a", "b">>, <<"c">>>>, <<<<"a">>, <<"b", "c">>>>}

NoIdent ==
    [build_hash |-> <<>>, prefix |-> <<>>, sysroot |-> <<>>,
     error |-> NoError]

NoArgs == CHOOSE a \in ArgSets : TRUE

NoParse ==
    [done |-> FALSE, common_cfg |-> common_cfg(NoArgs), cfgs |-> <<>>,
     ident |-> NoIdent]

NumEntries == Len(CfgEntries)

\* parse_args: args = parser.parse_args(argv); cfg.common_cfg = {...}.
\* What an earlier run derived is kept for comparison.
ParseArgs ==
    /\ parsePc \in {0, NumEntries + 2}
    /\ parses < MaxParses
    /\ \E a \in ArgSets : parsed' = a
    /\ previous' = IF parsePc = 0 THEN previous
                   ELSE [done |-> TRUE, common_cfg |-> common_cfg(parsed),
                         cfgs |-> cfgs, ident |-> ident]
    /\ cfgs' = <<>>
    /\ ident' = NoIdent
    /\ parsePc' = 1
    /\ parses' = parses + 1
    /\ UNCHANGED <<tips, pushes, hashes, pipeVars, mainVars, repoVars,
                   optVars, argVars, lateVars>>

\* parse_args: cfg.<component>_cfg = {"version": get_<component>_version(...)}
ResolveVersion ==
    /\ parsePc \in 1..NumEntries
    /\ LET e == CfgEntries[parsePc]
           v == IF e.repo = None THEN get_lib_version(parsed[e.arg])
                ELSE get_version(e.repo, parsed[e.arg], tips)
           x == IF e.extra = None THEN None ELSE parsed[e.extra]
       IN cfgs' = Append(cfgs, [cfg |-> e.cfg, key |-> e.key, value |-> v,
                                extra_config |-> x])
    /\ parsePc' = parsePc + 1
    /\ UNCHANGED <<parsed, ident, previous, parses, tips, pushes, hashes,
                   pipeVars, mainVars, repoVars, optVars, argVars, lateVars>>

\* parse_args: build_hash = hash_build_config(cfg);
\* prefix = PurePath("/opt") / target / build_hash; sysroot = prefix / "rootfs"
BuildIdentity ==
    /\ parsePc = NumEntries + 1
    /\ LET cfg == [common_cfg |-> common_cfg(parsed), cfgs |-> cfgs]
           h == hash_build_config(<<<<cfg>>>>)
           prefix == <<"/opt", cfg.common_cfg.target, h.digest>>
       IN ident' = IF h.error # NoError
                     THEN [NoIdent EXCEPT !.error = h.error]
                     ELSE [build_hash |-> h.digest, prefix |-> prefix,
                           sysroot |-> Append(prefix, "rootfs"),
                           error |-> NoError]
    /\ parsePc' = parsePc + 1
    /\ UNCHANGED <<parsed, cfgs, previous, parses, tips, pushes, hashes,
                   pipeVars, mainVars, repoVars, optVars, argVars, lateVars>>

\* the upstream tip of a repository changes
Push ==
    /\ pushes < MaxPushes
    /\ \E r \in Repos : tips' = [tips EXCEPT ![r] = NextHash(@)]
    /\ pushes' = pushes + 1
    /\ UNCHANGED <<parsed, cfgs, parsePc, ident, previous, parses, hashes,
                   pipeVars, mainVars, repoVars, optVars, argVars, lateVars>>

\* a call of hash_build_config on its own
HashBuildConfig ==
    /\ Cardinality(hashes) < MaxHashes
    /\ \E argv \in ArgvSets :
         LET h == hash_build_config(argv)
         IN hashes' = hashes \cup
                        {[argv |-> argv, digest |-> h.digest,
                          error |-> h.error]}
    /\ hashes' # hashes
    /\ UNCHANGED <<parsed, cfgs, parsePc, ident, previous, parses, tips, pushes,
                   pipeVars, mainVars, repoVars, optVars, argVars, lateVars>>

(***************************************************************************)
(* GitRepo._list_versions                                                  *)
(***************************************************************************)
\* the branches and tags the upstream repository may hold: the kind, the
\* name as its path components, and whether a tag is annotated
Refs ==
    {[kind |-> "heads", name |-> <<"main">>, annotated |-> FALSE],
     [kind |-> "heads", name |-> <<"release", "v1">>, annotated |-> FALSE],
     [kind |-> "heads", name |-> <<"v2">>, annotated |-> FALSE],
     [kind |-> "tags", name |-> <<"v1">>, annotated |-> FALSE],
     [kind |-> "tags", name |-> <<"v2">>, annotated |-> TRUE]}

\* a line of `git ls-remote --tags --heads`: "<hash>\trefs/<kind>/<name>",
\* with "^{}" appended on the line of the object an annotated tag points to.
\* parts are the pieces between the '/' of the line.
Line(ref, peeled) ==
    [parts |-> <<"hash refs", ref.kind>> \o ref.name, peeled |-> peeled]

\* the lines printed for a set of refs, each line ended by '\n'
ls_remote(refs) ==
    {Line(ref, FALSE) : ref \in refs}
        \cup {Line(ref, TRUE) : ref \in {x \in refs : x.annotated}}

\* what is left after the last '\n' of the text: the empty string
EmptyPiece == [parts |-> <<"">>, peeled |-> FALSE]

\* out.stdout.split('\n')
split_lines(lines) == lines \cup {EmptyPiece}

\* tag.split('/')[-1].split('^')[0]
entry(piece) == <<piece.parts[Len(piece.parts)]>>

\* the order of str on the texts that occur
Rank(text) ==
    CASE text = <<"">> -> 0
      [] text = <<"main">> -> 1
      [] text = <<"v1">> -> 2
      [] text = <<"v2">> -> 3

\* sorted(list(S), reverse=True)
RECURSIVE sorted_reverse(_)
sorted_reverse(S) ==
    IF S = {} THEN <<>>
    ELSE LET top == CHOOSE x \in S : \A y \in S : Rank(y) <= Rank(x)
         IN <<top>> \o sorted_reverse(S \ {top})

\* GitRepo._list_versions: the set comprehension over the pieces, sorted
list_versions(refs) ==
    sorted_reverse({entry(piece) : piece \in split_lines(ls_remote(refs))})

NoListing == [done |-> FALSE, of |-> {}, stdout |-> <<>>]

\* a call of _list_versions
ListVersions ==
    /\ listing' = [done |-> TRUE, of |-> remote,
                   stdout |-> list_versions(remote)]
    /\ listing' # listing
    /\ UNCHANGED <<remote, pipeVars, mainVars, repoVars, optVars, argVars,
                   idVars, stageVars, compVars>>

\* a branch or a tag is created upstream
CreateRef ==
    /\ \E ref \in Refs \ remote : remote' = remote \cup {ref}
    /\ UNCHANGED <<listing, pipeVars, mainVars, repoVars, optVars, argVars,
                   idVars, stageVars, compVars>>

(***************************************************************************)
(* MakeProject: the arguments of the stages and the hooks of a subclass    *)
(***************************************************************************)
MAKE_PROG == "make"

\* values of the cpus attribute
Cpus == {"1", "8"}

\* self.__dict__ as MakeProject.__init__ leaves it
Constructed(i) ==
    [cpus |-> i.cpus, prefix |-> "/opt/toolchain"]

\* template.format(**self.__dict__) on the templates that occur
str_format(template, dict) ==
    IF template = "-j{cpus}" THEN <<"-j", dict.cpus>>
    ELSE IF template = "--prefix={prefix}" THEN <<"--prefix=", dict.prefix>>
    ELSE <<template>>

\* [arg.format(**self.__dict__) for arg in templates]
format_all(templates, dict) ==
    [i \in 1..Len(templates) |-> str_format(templates[i], dict)]

\* the class attributes of a layout with the class bodies b, for one kind
HierarchyOf(layout, kind, b) ==
    [layout |-> layout, kind |-> kind,
     lists |-> [c \in ClassSet |->
                  IF c = Root
                    THEN RootBody(layout, KeywordDefault(kind), Undeclared)
                    ELSE b[c]],
     envs |-> [c \in ClassSet |->
                  IF c = Root THEN RootBody(layout, {}, UndeclaredEnv)
                  ELSE UndeclaredEnv]]

\* the class bodies considered: the attribute declared by the class or not
StageBodies ==
    {b \in [ClassSet \ {Root} -> UNION {ListBodies(c) : c \in ClassSet}] :
        \A c \in ClassSet \ {Root} : b[c] \in ListBodies(c)}

\* Ret(): "if not args and not kwargs"
Ret_default ==
    [args |-> <<>>, returncode |-> 0, stderr |-> <<>>, stdout |-> <<>>]

\* Ret(<int>) with the status lost
Ret_int_status_lost(status) ==
    [args |-> <<status>>, returncode |-> -1, stderr |-> <<>>, stdout |-> <<>>]

\* Ret(<int>): "elif isinstance(args[0], int) and len(args) == 1"
Ret_int(status) ==
    [args |-> <<>>, returncode |-> status, stderr |-> <<>>, stdout |-> <<>>]

\* the result of an external process run by a stage
Ret_process(cmd, status) ==
    [args |-> <<cmd>>, returncode |-> status, stderr |-> <<>>, stdout |-> <<>>]

\* the hooks of MakeProject return Ret(SUCCESS) and touch nothing; those of
\* a subclass that overrides them may assign self.cpus and fail
Keep == "keep"
HookEffects(hooks) ==
    IF hooks = "default" THEN {[cpus |-> Keep, ret |-> Ret_int(SUCCESS)]}
    ELSE {[cpus |-> c, ret |-> Ret_int(rc)] :
              c \in Cpus, rc \in {SUCCESS, FAILURE}}

\* self.__dict__ after a hook
after_hook(dict, effect) ==
    IF effect.cpus = Keep THEN dict ELSE [dict EXCEPT !.cpus = effect.cpus]

HookEvent(op, name, dict, ret) ==
    [kind |-> "hook", op |-> op, stage |-> name, templates |-> <<>>,
     args |-> <<>>, cpus |-> dict.cpus, ret |-> ret]

CmdEvent(op, name, templates, args, dict, ret) ==
    [kind |-> "cmd", op |-> op, stage |-> name, templates |-> templates,
     args |-> args, cpus |-> dict.cpus, ret |-> ret]

RaiseEvent(op, name, dict) ==
    [kind |-> "raise", op |-> op, stage |-> name, templates |-> <<>>,
     args |-> <<>>, cpus |-> dict.cpus, ret |-> Ret_int(-1)]

\* the chain with the arguments substituted from the attributes the
\* construction set
stage_chain_at_construction(op, name, templates, dict, cd_rc, pre, cmd_rc, post) ==
    LET args == format_all(templates, Constructed(inst))
        ops == AndChain(<<Ret_process("cd", cd_rc), pre.ret,
                          Ret_process(MAKE_PROG, cmd_rc), post.ret>>, 1)
        n == Len(ops)
        d1 == IF n >= 2 THEN after_hook(dict, pre) ELSE dict
        d2 == IF n >= 4 THEN after_hook(d1, post) ELSE d1
    IN [dict |-> d2,
        events |->
            (IF n >= 2 THEN <<HookEvent(op, "pre_" \o name, d1, ops[2])>>
             ELSE <<>>)
              \o (IF n >= 3
                    THEN <<CmdEvent(op, name, templates, args, d1, ops[3])>>
                  ELSE <<>>)
              \o (IF n >= 4 THEN <<HookEvent(op, "post_" \o name, d2, ops[4])>>
                  ELSE <<>>)]

\* the chain with the arguments substituted after the pre hook has run
stage_chain_after_pre_hook(op, name, templates, dict, cd_rc, pre, cmd_rc, post) ==
    LET args == format_all(templates, after_hook(dict, pre))
        ops == AndChain(<<Ret_process("cd", cd_rc), pre.ret,
                          Ret_process(MAKE_PROG, cmd_rc), post.ret>>, 1)
        n == Len(ops)
        d1 == IF n >= 2 THEN after_hook(dict, pre) ELSE dict
        d2 == IF n >= 4 THEN after_hook(d1, post) ELSE d1
    IN [dict |-> d2,
        events |->
            (IF n >= 2 THEN <<HookEvent(op, "pre_" \o name, d1, ops[2])>>
             ELSE <<>>)
              \o (IF n >= 3
                    THEN <<CmdEvent(op, name, templates, args, d1, ops[3])>>
                  ELSE <<>>)
              \o (IF n >= 4 THEN <<HookEvent(op, "post_" \o name, d2, ops[4])>>
                  ELSE <<>>)]

\* the chain of build() and install():
\*   run(["cd", build_dir]) and self.pre_x() and run([MAKE_PROG] + args)
\*       and self.post_x()
\* args are substituted before the chain, from the attributes at entry
stage_chain(op, name, templates, dict, cd_rc, pre, cmd_rc, post) ==
    LET args == format_all(templates, dict)
        ops == AndChain(<<Ret_process("cd", cd_rc), pre.ret,
                          Ret_process(MAKE_PROG, cmd_rc), post.ret>>, 1)
        n == Len(ops)
        d1 == IF n >= 2 THEN after_hook(dict, pre) ELSE dict
        d2 == IF n >= 4 THEN after_hook(d1, post) ELSE d1
    IN [dict |-> d2,
        events |->
            (IF n >= 2 THEN <<HookEvent(op, "pre_" \o name, d1, ops[2])>>
             ELSE <<>>)
              \o (IF n >= 3
                    THEN <<CmdEvent(op, name, templates, args, d1, ops[3])>>
                  ELSE <<>>)
              \o (IF n >= 4 THEN <<HookEvent(op, "post_" \o name, d2, ops[4])>>
                  ELSE <<>>)]

\* what a stage can do, over the outcomes of its processes and hooks
StageOutcomes(op, name, templates, dict) ==
    {stage_chain(op, name, templates, dict, cd_rc, pre, cmd_rc, post) :
        cd_rc \in {SUCCESS, FAILURE}, cmd_rc \in {SUCCESS, FAILURE},
        pre \in HookEffects(inst.hooks), post \in HookEffects(inst.hooks)}

\* MakeProject.build of an instance whose class may override the hooks
StageBuild ==
    /\ stageOps < MaxStages
    /\ LET h == HierarchyOf(inst.layout, "make_args", inst.bodies)
           r == default_args(h, inst.cls, heaps["make_args"])
       IN /\ heaps' = [heaps EXCEPT !["make_args"] = r.heap]
          /\ \E c \in StageOutcomes(stageOps + 1, "build",
                                    r.value \o inst.make_args, selfDict) :
               /\ selfDict' = c.dict
               /\ trace' = trace \o c.events
    /\ stageOps' = stageOps + 1
    /\ UNCHANGED <<inst, pipeVars, mainVars, repoVars, optVars, argVars,
                   idVars, listVars, compVars>>

\* MakeProject.install of an instance whose class may override the hooks
StageInstall ==
    /\ stageOps < MaxStages
    /\ LET h == HierarchyOf(inst.layout, "install_args", inst.bodies)
           r == default_args(h, inst.cls, heaps["install_args"])
       IN /\ heaps' = [heaps EXCEPT !["install_args"] = r.heap]
          /\ \E c \in StageOutcomes(stageOps + 1, "install",
                                    r.value \o inst.install_args
                                        \o inst.install_targets, selfDict) :
               /\ selfDict' = c.dict
               /\ trace' = trace \o c.events
    /\ stageOps' = stageOps + 1
    /\ UNCHANGED <<inst, pipeVars, mainVars, repoVars, optVars, argVars,
                   idVars, listVars, compVars>>

\* MakeProject.clean: return Ret(SUCCESS)
StageClean ==
    /\ stageOps < MaxStages
    /\ trace' = Append(trace, HookEvent(stageOps + 1, "clean", selfDict,
                                        Ret_int(SUCCESS)))
    /\ stageOps' = stageOps + 1
    /\ UNCHANGED <<inst, selfDict, heaps, pipeVars, mainVars, repoVars,
                   optVars, argVars, idVars, listVars, compVars>>

\* MakeProject.configure: the arguments are resolved (default_config()
\* extends the class lists), then the environment, whose resolution raises
\* before any process or hook is run
StageConfigure ==
    /\ stageOps < MaxStages
    /\ LET h == HierarchyOf(inst.layout, "config", inst.bodies)
           r == default_args(h, inst.cls, heaps["config"])
           e == default_config_env(h, inst.cls)
       IN /\ heaps' = [heaps EXCEPT !["config"] = r.heap]
          /\ r.error # NoError \/ e.error # NoError
          /\ trace' = Append(trace,
                             RaiseEvent(stageOps + 1, "configure", selfDict))
    /\ stageOps' = stageOps + 1
    /\ UNCHANGED <<inst, selfDict, pipeVars, mainVars, repoVars, optVars,
                   argVars, idVars, listVars, compVars>>

(***************************************************************************)
(* The components of the toolchain: constructors and stage arguments       *)
(***************************************************************************)
Components == {"Binutils", "StaticGCC", "Glibc", "GCC", "KernelHeaders"}

BUILD_DIR == <<"build">>
SOURCE_DIR == <<"source">>
BINUTILS_NAME == "binutils"
GCC_NAME == "gcc"
GCC_STATIC == "gcc-static"
GLIBC_NAME == "glibc"

\* ARCH_TO_KERNEL_ARCH_MAP.get(arch, arch)
map_arch_to_kernel_arch(arch) == IF arch = "aarch64" THEN "arm64" ELSE arch

KeyError == "KeyError"

\* a template "<option>{field}<suffix>"; dollar marks a '$' written before
\* the brace, which str.format copies to the result
Tpl(option, dollar, field, suffix) ==
    [option |-> option, dollar |-> dollar, field |-> field, suffix |-> suffix]

\* the class-body templates that carry the prefix, the sysroot, the header
\* directory or the architecture, and the first one of a class whose field
\* its constructor does not set
ClassConfig(c) ==
    CASE c = "Binutils" ->
           <<Tpl("--prefix=", FALSE, "prefix", <<>>),
             Tpl("--with-sysroot=", TRUE, "sysroot", <<>>)>>
      [] c = "StaticGCC" ->
           <<Tpl("--prefix=", FALSE, "prefix", <<>>),
             Tpl("--build=", FALSE, "build", <<>>),
             Tpl("--with-sysroot=", FALSE, "sysroot", <<>>)>>
      [] c = "Glibc" ->
           <<Tpl("--with-headers=", FALSE, "sysroot", <<"usr", "include">>),
             Tpl("--with-binutils=", FALSE, "prefix", <<"bin">>)>>
      [] c = "GCC" ->
           <<Tpl("--prefix=", TRUE, "prefix", <<>>),
             Tpl("--with-sysroot=", TRUE, "sysroot", <<>>)>>
      [] c = "KernelHeaders" -> <<>>

ClassInstallArgs(c) ==
    CASE c = "Glibc" -> <<Tpl("install_root=", FALSE, "", <<>>)>>
      [] c = "KernelHeaders" ->
           <<Tpl("ARCH=", FALSE, "arch", <<>>),
             Tpl("INSTALL_HDR_PATH=", FALSE, "hdr_dir", <<>>)>>
      [] OTHER -> <<>>

\* the project name the directories of a component are made from
DirName(c) ==
    CASE c = "Binutils" -> BINUTILS_NAME
      [] c = "StaticGCC" -> GCC_NAME
      [] c = "GCC" -> GCC_NAME
      [] c = "Glibc" -> GLIBC_NAME
      [] c = "KernelHeaders" -> "linux"

\* the name of the project a component is
ProjectName(c) ==
    CASE c = "Binutils" -> BINUTILS_NAME
      [] c = "StaticGCC" -> GCC_STATIC
      [] c = "GCC" -> GCC_NAME
      [] c = "Glibc" -> GLIBC_NAME
      [] c = "KernelHeaders" -> "linux"

\* the organizations a run may name; make_triplet has "weaver" as default
Orgs == {"weaver", "acme"}

\* the triple as the one path component it is in the prefix
triplet_text(t) == t[1] \o "-" \o t[2] \o "-" \o t[3]

\* <Component>.__init__: the attributes the instance has afterwards, for
\* the keyword arguments t.  Attribute values are path components.
construct(c, t) ==
    LET source_dir == SOURCE_DIR \o <<DirName(c), t.version[c]>>
        build_dir == BUILD_DIR \o <<DirName(c), t.version[c]>>
    IN CASE c = "Binutils" ->
              [constructed |-> TRUE, version |-> <<t.version[c]>>,
               prefix |-> t.prefix, sysroot |-> t.prefix \o <<"rootfs">>,
               target_triplet |-> make_triplet(t.arch, "weaver"),
               source_dir |-> source_dir, build_dir |-> build_dir]
         [] c = "StaticGCC" ->
              [constructed |-> TRUE, version |-> <<t.version[c]>>,
               prefix |-> t.prefix, sysroot |-> t.sysroot,
               target_triplet |-> make_triplet(t.arch, "weaver"),
               source_dir |-> source_dir, build_dir |-> build_dir]
         [] c = "Glibc" ->
              [constructed |-> TRUE, sysroot |-> t.prefix \o <<"rootfs">>,
               arch |-> <<t.arch>>,
               target_triplet |-> make_triplet(t.arch, "weaver"),
               source_dir |-> source_dir, build_dir |-> build_dir]
         [] c = "GCC" ->
              [constructed |-> TRUE, version |-> <<t.version[c]>>,
               prefix |-> t.prefix, sysroot |-> t.sysroot,
               arch |-> <<t.arch>>,
               target_triplet |-> make_triplet(t.arch, "weaver"),
               source_dir |-> source_dir, build_dir |-> build_dir]
         [] c = "KernelHeaders" ->
              [constructed |-> TRUE, version |-> <<t.version[c]>>,
               hdr_dir |-> t.sysroot \o <<"usr">>,
               arch |-> <<map_arch_to_kernel_arch(t.arch)>>,
               source_dir |-> source_dir, build_dir |-> source_dir]

NoObject == [constructed |-> FALSE]

\* GitRepo.shallow_clone / fetch_version(version): the directory of the
\* checkout, output = SOURCE_DIR / name / branch.  In the script name is
\* the attribute of the instance; in src/weaver the method is a class
\* method and cls.name is the property object of Repo, which PurePath
\* cannot be joined with.
shallow_clone_output(layout, name, branch) ==
    IF layout = "script"
      THEN [error |-> NoError, path |-> SOURCE_DIR \o <<name, branch>>]
    ELSE [error |-> TypeError, path |-> <<>>]

\* GitRepo.clone_bare / initial_fetch: output = SOURCE_DIR / (name + ".git")
bare_output(layout, name) ==
    IF layout = "script"
      THEN [error |-> NoError, path |-> SOURCE_DIR \o <<name \o ".git">>]
    ELSE [error |-> TypeError, path |-> <<>>]

\* template.format(**self.__dict__): a field the instance lacks raises
\* KeyError, the positional field {} raises IndexError
format_field(tpl, dict) ==
    IF tpl.field = "" THEN [error |-> IndexError, option |-> tpl.option,
                            lead |-> "", value |-> <<>>]
    ELSE IF tpl.field \notin DOMAIN dict
      THEN [error |-> KeyError, option |-> tpl.option, lead |-> "",
            value |-> <<>>]
    ELSE [error |-> NoError, option |-> tpl.option,
          lead |-> IF tpl.dollar THEN "$" ELSE "",
          value |-> dict[tpl.field] \o tpl.suffix]

\* the list comprehension over the templates: the first error ends it
RECURSIVE format_list(_, _, _)
format_list(tpls, dict, i) ==
    IF i > Len(tpls) THEN [error |-> NoError, args |-> <<>>]
    ELSE LET a == format_field(tpls[i], dict)
             rest == format_list(tpls, dict, i + 1)
         IN IF a.error # NoError THEN [error |-> a.error, args |-> <<>>]
            ELSE IF rest.error # NoError THEN rest
            ELSE [error |-> NoError, args |-> <<a>> \o rest.args]

\* default_config() / default_install_args() of a component class at its
\* first resolution.  Script: the list of the class body, extended by that
\* of MakeProject.  src/weaver: __init_subclass__ has replaced the list of
\* the class body by the keyword default, and resolving default_config
\* calls the property object of MakeProject.
class_defaults(layout, kind, body) ==
    IF layout = "script" THEN [error |-> NoError, value |-> body]
    ELSE IF kind = "config" THEN [error |-> TypeError, value |-> <<>>]
    ELSE [error |-> NoError, value |-> <<>>]

\* the replacement fields of the templates a component class declares in
\* _default_config, _default_config_env, _default_make_args and
\* _default_install_args, with -j{cpus} of MakeProject; "" is the
\* positional field {}
Placeholders(c) ==
    {"cpus"} \cup
    CASE c = "Binutils" ->
           {"prefix", "host_triplet", "build_triplet", "target_triplet",
            "sysroot", "cc", "cxx", "ld"}
      [] c = "KernelHeaders" -> {"arch", "hdr_dir"}
      [] c = "StaticGCC" ->
           {"prefix", "target_triplet", "build", "host", "sysroot", "cc",
            "cxx", "linker", "ar"}
      [] c = "Glibc" ->
           {"cc", "target_triplet", "triplet", "host_triplet", "sysroot",
            "prefix", "kernel_version", ""}
      [] c = "GCC" ->
           {"prefix", "target_triplet", "host_triplet", "build_triplet",
            "sysroot", "cc", "cxx"}

\* the attributes <Component>.__init__ and MakeProject.__init__ assign
InitAttributes(c) ==
    {"source_dir", "build_dir", "cpus", "config", "config_env",
     "make_targets", "make_env", "make_args", "install_targets",
     "install_env", "install_args"} \cup
    CASE c = "Binutils" ->
           {"prefix", "sysroot", "target_triplet", "host_triplet",
            "build_triplet", "version", "cc", "cxx", "ld"}
      [] c = "KernelHeaders" -> {"hdr_dir", "version", "arch"}
      [] c = "StaticGCC" ->
           {"prefix", "version", "target_triplet", "target_host",
            "target_build", "sysroot", "cc", "cxx", "linker", "ar"}
      [] c = "Glibc" ->
           {"sysroot", "target_triplet", "arch", "host_triplet",
            "kernel_version"}
      [] c = "GCC" ->
           {"prefix", "target_triplet", "host_triplet", "build_triplet",
            "arch", "version", "sysroot", "cc", "cxx", "ar"}

NotRun == [kind |-> "not_run", error |-> NoError, args |-> <<>>]

\* a stage overridden to `return Ret(SUCCESS)`
NoOp == [kind |-> "noop", error |-> NoError, args |-> <<>>]

\* the arguments configure() computes for component c
configure_of(layout, c, dict) ==
    IF c = "KernelHeaders" THEN NoOp
    ELSE LET d == class_defaults(layout, "config", ClassConfig(c))
             r == format_list(d.value, dict, 1)
         IN IF d.error # NoError
              THEN [kind |-> "raise", error |-> d.error, args |-> <<>>]
            ELSE IF r.error # NoError
              THEN [kind |-> "raise", error |-> r.error, args |-> <<>>]
            ELSE [kind |-> "args", error |-> NoError, args |-> r.args]

\* KernelHeaders.build
build_of(c) == IF c = "KernelHeaders" THEN NoOp ELSE NotRun

\* the arguments install() computes for component c
install_of(layout, c, dict) ==
    LET d == class_defaults(layout, "install_args", ClassInstallArgs(c))
        r == format_list(d.value, dict, 1)
    IN IF r.error # NoError
         THEN [kind |-> "raise", error |-> r.error, args |-> <<>>]
       ELSE [kind |-> "args", error |-> NoError, args |-> r.args]

NoComputed == [configure |-> NotRun, build |-> NotRun, install |-> NotRun]

\* a stage of main constructs its component from the configuration
Instantiate ==
    /\ \E c \in Components :
         /\ ~objects[c].constructed
         /\ objects' = [objects EXCEPT ![c] = construct(c, toolchain)]
    /\ UNCHANGED <<toolchain, computed, pipeVars, mainVars, repoVars, optVars,
                   argVars, idVars, listVars, stageVars>>

\* configure() of a constructed component, up to its argument list
ComponentConfigure ==
    /\ \E c \in Components :
         /\ objects[c].constructed
         /\ computed[c].configure = NotRun
         /\ computed' = [computed EXCEPT ![c].configure =
                           configure_of(toolchain.layout, c, objects[c])]
    /\ UNCHANGED <<toolchain, objects, pipeVars, mainVars, repoVars, optVars,
                   argVars, idVars, listVars, stageVars>>

\* build() of the kernel headers
ComponentBuild ==
    /\ \E c \in {"KernelHeaders"} :
         /\ objects[c].constructed
         /\ computed[c].build = NotRun
         /\ computed' = [computed EXCEPT ![c].build = build_of(c)]
    /\ UNCHANGED <<toolchain, objects, pipeVars, mainVars, repoVars, optVars,
                   argVars, idVars, listVars, stageVars>>

\* install() of a constructed component, up to its argument list
ComponentInstall ==
    /\ \E c \in Components :
         /\ objects[c].constructed
         /\ computed[c].install = NotRun
         /\ computed' = [computed EXCEPT ![c].install =
                           install_of(toolchain.layout, c, objects[c])]
    /\ UNCHANGED <<toolchain, objects, pipeVars, mainVars, repoVars, optVars,
                   argVars, idVars, listVars, stageVars>>

(***************************************************************************)
(* Specifications                                                          *)
(***************************************************************************)
PipeIdle == hist = <<>> /\ chains = {}
MainIdle == mainPc = "chain" /\ stageLog = <<>> /\ mainOut = NoRet /\ mainErr = 0

\* the source cache with no run in an operation; b are the runs that call
RepoInit(b) ==
    /\ fs \in [Paths -> {"absent", "repo"}]
    /\ lock = [p \in Paths |-> NoRun]
    /\ pc = [r \in Runs |-> "idle"]
    /\ ctx = [r \in Runs |-> [op |-> "none", path |-> Mirror, clones |-> 0,
                               before |-> "absent", conc |-> FALSE]]
    /\ cwd = [r \in Runs |-> Home]
    /\ dirs = [r \in Runs |-> <<>>]
    /\ calls = 0
    /\ budget = b
    /\ lastCall = [r \in Runs |-> NoCall]
    /\ unlocked = {}
    /\ lookup = NoLookup

RepoIdle == RepoInit({})

\* a project instance constructed with no option enabled
OptInit(d, p) ==
    /\ options \in d
    /\ config = {}
    /\ projPc = p
    /\ projErr = NoError

OptIdle == OptInit({NoDeclaration}, "object")

\* the class hierarchy as declared, nothing resolved yet
ArgInit(hs) ==
    /\ hierarchy \in hs
    /\ heap = InitialHeap(hierarchy)
    /\ result = NoResult
    /\ resolves = 0

ArgIdle ==
    ArgInit({h \in Hierarchies :
               /\ h.layout = "weaver" /\ h.kind = "config"
               /\ \A c \in ClassSet : ~h.lists[c].declared
               /\ \A c \in ClassSet : ~h.envs[c].declared})

\* parse_args not called, the upstream repositories at some tip
IdInit(ts) ==
    /\ parsed = NoArgs
    /\ cfgs = <<>>
    /\ parsePc = 0
    /\ ident = NoIdent
    /\ previous = NoParse
    /\ parses = 0
    /\ tips \in ts
    /\ pushes = 0
    /\ hashes = {}

IdIdle == IdInit({[r \in Repos |-> "h1"]})

\* _list_versions not called, the repository with the refs in rs
ListInit(rs) ==
    /\ remote \in rs
    /\ listing = NoListing

ListIdle == ListInit({{}})

NoInstance ==
    [layout |-> "script", cls |-> Root, hooks |-> "default", cpus |-> "1",
     bodies |-> [c \in ClassSet \ {Root} |-> Undeclared],
     make_args |-> <<>>, install_args |-> <<>>,
     install_targets |-> <<"install">>]

StageInit(is) ==
    /\ inst \in is
    /\ selfDict = Constructed(inst)
    /\ heaps = [k \in Kinds |->
                  InitialHeap(HierarchyOf(inst.layout, k, inst.bodies))]
    /\ trace = <<>>
    /\ stageOps = 0

StageIdle == StageInit({NoInstance})

\* the configurations of a run: prefix and sysroot as parse_args derives
\* them, one version per component
Toolchains ==
    {[layout |-> l, arch |-> a, org |-> o, target |-> make_triplet(a, o),
      prefix |-> <<"opt", triplet_text(make_triplet(a, o)), "build_hash">>,
      sysroot |-> <<"opt", triplet_text(make_triplet(a, o)), "build_hash",
                    "rootfs">>,
      version |-> [c \in Components |->
                     IF c = "GCC" THEN g
                     ELSE IF c = "StaticGCC" THEN sg ELSE "v1"]] :
        l \in Layouts, a \in Archs, o \in Orgs, g \in Versions,
        sg \in Versions}

NoToolchain == CHOOSE t \in Toolchains : TRUE

CompInit(ts) ==
    /\ toolchain \in ts
    /\ objects = [c \in Components |-> NoObject]
    /\ computed = [c \in Components |-> NoComputed]

CompIdle == CompInit({NoToolchain})

LateIdle == ListIdle /\ StageIdle /\ CompIdle

ExtIdle == OptIdle /\ ArgIdle /\ IdIdle /\ LateIdle

Init == PipeIdle /\ MainIdle /\ RepoIdle /\ ExtIdle

Next == Configure \/ Build \/ Install \/ Run

Spec == Init /\ [][Next]_vars

NextMain == MainStage \/ MainReturn

SpecMain == Init /\ [][NextMain]_vars

\* two independent runs sharing one source root
InitRepo == PipeIdle /\ MainIdle /\ RepoInit(Runs) /\ ExtIdle

NextRepo ==
    \E r \in Runs :
        \/ initial_fetch(r)
        \/ \E v \in Versions : fetch_version(r, v)
        \/ update(r)
        \/ CloneMkdir(r)
        \/ CloneFlockTry(r)
        \/ CloneExit(r)
        \/ UpdateTest(r)
        \/ UpdatePushd(r)
        \/ UpdateFlock(r)
        \/ FetchExit(r)
        \/ UpdatePopd(r)

SpecRepo == InitRepo /\ [][NextRepo]_vars

\* ref lookups while the bare mirror is cloned
NextLookup ==
    \E r \in Runs :
        \/ GetHash(r)
        \/ initial_fetch(r)
        \/ CloneMkdir(r)
        \/ CloneFlockTry(r)
        \/ CloneExit(r)

SpecLookup == InitRepo /\ [][NextLookup]_vars

\* one run alone on the source root
InitSolo ==
    PipeIdle /\ MainIdle
      /\ RepoInit({"A"}) /\ ExtIdle

SpecSolo == InitSolo /\ [][NextRepo]_vars

\* a class with declared options, constructed and then driven
InitProject ==
    PipeIdle /\ MainIdle /\ RepoIdle /\ OptInit(Declarations, "class")
      /\ ArgIdle /\ IdIdle /\ LateIdle

NextProject == MakeProject_init \/ Configure \/ Build

SpecProject == InitProject /\ [][NextProject]_vars

\* the default arguments of the classes of a hierarchy, resolved repeatedly
InitArgs ==
    PipeIdle /\ MainIdle /\ RepoIdle /\ OptIdle
      /\ ArgInit({h \in Hierarchies : WellFormed(h)}) /\ IdIdle
      /\ LateIdle

NextArgs == DefaultArgs \/ DefaultConfigEnv \/ ConfigureArgs

SpecArgs == InitArgs /\ [][NextArgs]_vars

\* runs of parse_args while the upstream repositories move
InitIdentity ==
    PipeIdle /\ MainIdle /\ RepoIdle /\ fs = [p \in Paths |-> "repo"]
      /\ OptIdle /\ ArgIdle /\ IdInit({[r \in Repos |-> "h1"]}) /\ LateIdle

NextIdentity ==
    ParseArgs \/ ResolveVersion \/ BuildIdentity \/ Push \/ HashBuildConfig

SpecIdentity == InitIdentity /\ [][NextIdentity]_vars

\* calls of _list_versions while branches and tags are created upstream
InitList ==
    PipeIdle /\ MainIdle /\ RepoIdle /\ OptIdle /\ ArgIdle /\ IdIdle
      /\ ListInit(SUBSET Refs) /\ StageIdle /\ CompIdle

NextList == ListVersions \/ CreateRef

SpecList == InitList /\ [][NextList]_vars

\* the instances considered: a class of either layout, with the hooks of
\* MakeProject or its own, constructed with some cpus
Instances ==
    [layout : Layouts, cls : ClassSet, hooks : {"default", "override"},
     cpus : Cpus, bodies : StageBodies,
     make_args : {<<>>}, install_args : {<<>>},
     install_targets : {<<"install">>}]

\* the stage methods of one instance, called in any order
InitStages ==
    PipeIdle /\ MainIdle /\ RepoIdle /\ fs = [p \in Paths |-> "repo"]
      /\ OptIdle /\ ArgIdle /\ IdIdle /\ ListIdle /\ StageInit(Instances)
      /\ CompIdle

NextStages == StageConfigure \/ StageBuild \/ StageInstall \/ StageClean

SpecStages == InitStages /\ [][NextStages]_vars

\* the components of one run, constructed and driven in any order
InitComponents ==
    PipeIdle /\ MainIdle /\ RepoIdle /\ fs = [p \in Paths |-> "repo"]
      /\ OptIdle /\ ArgIdle /\ IdIdle /\ ListIdle /\ StageIdle
      /\ CompInit(Toolchains)

NextComponents ==
    Instantiate \/ ComponentConfigure \/ ComponentBuild \/ ComponentInstall

SpecComponents == InitComponents /\ [][NextComponents]_vars

(***************************************************************************)
(* Claims about the pipeline and the stage chain                           *)
(***************************************************************************)
\* names of the steps a stage entry invoked
StepsOf(e) == [k \in 1..Len(e.steps) |-> e.steps[k].args]

AllSucceeded(e) == \A k \in 1..Len(e.steps) : e.steps[k].returncode = SUCCESS

NotCd(n) == n # "cd"

\* the steps the specification lists for each stage
ClaimedSteps ==
    [configure |-> <<"mkdir", "pre_config", "configure_cmd", "post_config">>,
     build     |-> <<"pre_build", "make", "post_build">>,
     install   |-> <<"pre_install", "make_install", "post_install">>]

\* C1: in every and-chain of Ret values, a step that returns a non-zero exit
\* status is the last step invoked, and its result is the value of the chain.
C1_ShortCircuitOnFailure ==
    \A c \in chains :
        \A k \in 1..Len(c.operands) :
            c.operands[k].returncode # SUCCESS
                => /\ k = Len(c.operands)
                   /\ c.value = c.operands[k]

\* C2: a stage in which every invoked step succeeded has invoked each of its
\* steps exactly once, in the order of the specification (the working
\* directory change of the source is not counted as a step).
C2_AllStepsOnSuccess ==
    \A k \in 1..Len(hist) :
        AllSucceeded(hist[k])
            => SelectSeq(StepsOf(hist[k]), NotCd) = ClaimedSteps[hist[k].stage]

\* the most recent entry of a stage before position k, 0 if there is none
LastBefore(stage, k) ==
    LET S == {j \in 1..(k - 1) : hist[j].stage = stage} IN
    IF S = {} THEN 0 ELSE CHOOSE j \in S : \A i \in S : i <= j

SucceededBefore(stage, k) ==
    /\ LastBefore(stage, k) # 0
    /\ hist[LastBefore(stage, k)].value.returncode = SUCCESS

\* C3: build is entered only after configure returned success, and install
\* only after build returned success, whatever the sequence of calls.
C3_StageOrder ==
    \A k \in 1..Len(hist) :
        /\ hist[k].stage = "build" => SucceededBefore("configure", k)
        /\ hist[k].stage = "install" => SucceededBefore("build", k)

GraphStages == {Stages[k] : k \in 1..Len(Stages)} \cup {"kernel_headers"}

Started(name) == {k \in 1..Len(stageLog) : stageLog[k].args = name}

Before(a, b) == \A i \in Started(a), j \in Started(b) : i < j

\* C5: when main has returned success, every stage of the graph was executed
\* exactly once, the kernel headers before the C library and the C library
\* before the final compiler.
C5_SuccessfulRunIsComplete ==
    (mainPc = "done" /\ mainErr = SUCCESS)
        => /\ \A n \in GraphStages : Cardinality(Started(n)) = 1
           /\ Before("kernel_headers", "glibc")
           /\ Before("glibc", "gcc")

(***************************************************************************)
(* Claims about the source cache                                           *)
(***************************************************************************)
\* the operation run r is in, or the one it completed last
CallOf(r) == IF pc[r] = "idle" THEN lastCall[r] ELSE ctx[r]

AllIdle == \A r \in Runs : pc[r] = "idle"

\* the two runs have each called initial_fetch once, overlapping in time, on
\* a mirror that was absent when the first of them started
ConcurrentInitialFetch ==
    /\ calls = Cardinality(Runs)
    /\ \A r \in Runs : CallOf(r).op = "initial_fetch" /\ CallOf(r).conc
    /\ \E r \in Runs : CallOf(r).before = "absent"

ClonesByBoth == CallOf("A").clones + CallOf("B").clones

\* C6: two concurrent initial_fetch of one mirror path execute the clone
\* command at most once at any time, and exactly once when both have returned.
C6_ExactlyOneClone ==
    ConcurrentInitialFetch
        => /\ ClonesByBoth <= 1
           /\ AllIdle => ClonesByBoth = 1

Guarded == {"cloning", "fetching"}

\* C7: nothing under a source path changes (the path is not even created)
\* unless the run that changes it holds the lock on the path, and no two
\* guarded commands run against one path at the same time.
C7_MutationsUnderLock ==
    /\ unlocked = {}
    /\ \A r, s \in Runs :
         (r # s /\ pc[r] \in Guarded /\ pc[s] \in Guarded)
             => ctx[r].path # ctx[s].path

C11_InitialFetchWhenAbsent ==
    [][\A r \in Runs :
         /\ (pc[r] = "test" /\ pc'[r] # "test")
                => (pc'[r] = "mkdir" <=> fs[Mirror] = "absent")
         /\ (pc[r] = "flock" /\ pc'[r] = "fetching")
                => fs[Mirror] # "absent"]_vars

\* C12: flock_try never waits: whenever a run is about to call it, the call
\* can return at once, with a failure when another run holds the lock.
C12_FlockTryFailsFast ==
    \A r \in Runs : pc[r] = "flock_try" => ENABLED CloneFlockTry(r)

(***************************************************************************)
(* Claims about option conflicts and dependencies                          *)
(***************************************************************************)
\* the pairs of enabled options of which the first declares the second a
\* conflict
ConflictingPairs ==
    {pr \in config \X config : pr[2] \in options[pr[1]].conflicts}

\* the pairs of an enabled option and a dependency of it that is disabled
MissingDependencies ==
    {pr \in config \X (OptionNames \ config) :
        pr[2] \in options[pr[1]].dependencies}

\* C13: a project given two options declared conflicting fails: no instance
\* exists, the error names a conflicting pair, and no external process was
\* spawned.
C13_ConflictFailsEarly ==
    ConflictingPairs # {}
        => /\ projPc = "error"
           /\ projErr \in ConflictingPairs
           /\ hist = <<>>

\* C14: a project given an option whose declared dependency is disabled
\* fails with a configuration error, and no external process was spawned.
C14_MissingDependencyFailsEarly ==
    MissingDependencies # {}
        => /\ projPc = "error"
           /\ projErr # NoError
           /\ hist = <<>>

(***************************************************************************)
(* Claims about the resolution of arguments and environment                *)
(***************************************************************************)
\* C15: the argument list of configure holds the override entries (those of
\* ARCH_SPECIFIC_CONFIGS and extra_config) and the generic default entries,
\* the override entries first.
C15_OverrideEntriesFirst ==
    result.op = "configure_args"
        => /\ result.error = NoError
           /\ result.value
                = configure_args(result.override, result.generic)

\* what the bodies of class c and of its ancestors assign to the list
\* attribute, the most specific class first
RECURSIVE DeclaredLists(_, _)
DeclaredLists(h, c) ==
    h.lists[c].value \o (IF c = Root THEN <<>> ELSE DeclaredLists(h, Base(c)))

\* C16: the default argument list of a class is its own declared entries
\* followed by those of every ancestor, none lost and none added.
C16_DefaultsConcatenate ==
    result.op = "default_args"
        => /\ result.error = NoError
           /\ result.value = DeclaredLists(hierarchy, result.cls)

\* what the bodies of class c and of its ancestors assign to the environment,
\* a more specific class winning on a key
RECURSIVE DeclaredEnvs(_, _)
DeclaredEnvs(h, c) ==
    IF c = Root THEN h.envs[c].value
    ELSE Merge(DeclaredEnvs(h, Base(c)), h.envs[c].value)

\* C17: the default configure environment of a class is the merge of the
\* environments declared along its ancestors, the most specific class winning
\* on a key of several, the keys of ancestors alone kept.
C17_SpecificEnvWins ==
    result.op = "default_config_env"
        => /\ result.error = NoError
           /\ result.env = DeclaredEnvs(hierarchy, result.cls)

\* a run of parse_args has finished after an earlier one
TwoParses == previous.done /\ parsePc = NumEntries + 2

\* both runs derived a build identity
BothIdentified == ident.error = NoError /\ previous.ident.error = NoError

\* C18: two configurations with the same architecture and the same resolved
\* component versions get the same build identity hash, the same prefix
\* and the same sysroot from parse_args.
C18_IdentityDeterministic ==
    (TwoParses /\ previous.common_cfg.arch = parsed.arch /\ previous.cfgs = cfgs)
        => /\ BothIdentified
           /\ ident.build_hash = previous.ident.build_hash
           /\ ident.prefix = previous.ident.prefix
           /\ ident.sysroot = previous.ident.sysroot

\* C19: two configurations differing in a resolved input get different
\* installation prefixes, and two different sequences of values given to
\* hash_build_config each get a digest, the two digests different.
C19_IdentityIsolated ==
    /\ (TwoParses /\ (previous.common_cfg.arch # parsed.arch
                          \/ previous.cfgs # cfgs))
           => BothIdentified /\ ident.prefix # previous.ident.prefix
    /\ \A a, b \in hashes :
           a.argv # b.argv
               => /\ a.error = NoError /\ b.error = NoError
                  /\ a.digest # b.digest

\* C20: the configurations built from one repository (the bootstrap compiler
\* and the final compiler share the compiler source) carry the same resolved
\* version, whatever the upstream tip does while parse_args runs.
C20_ResolvedOncePerComponent ==
    \A i, j \in DOMAIN cfgs :
        (CfgEntries[i].repo # None /\ CfgEntries[i].repo = CfgEntries[j].repo)
            => cfgs[i].value = cfgs[j].value

\* the version literal the i-th configuration was asked for
Requested(i) == parsed[CfgEntries[i].arg]

\* C21: a version literal other than the most-recent tokens is returned by
\* the version resolution of every component unchanged, as an exact ref.
C21_LiteralVersionUnchanged ==
    \A i \in DOMAIN cfgs :
        lower(Requested(i)) \notin MostRecent => cfgs[i].value = Requested(i)

\* the names of the branches and tags of a set of refs
Names(refs) == {ref.name : ref \in refs}

\* C22: _list_versions returns the names of the branches and tags with no
\* duplicates, in descending order, every entry the name of a branch or a
\* tag of the repository.
C22_ListVersionsCleanDescending ==
    listing.done
        => LET out == listing.stdout
           IN /\ \A i, j \in DOMAIN out : i < j => Rank(out[i]) > Rank(out[j])
              /\ \A i \in DOMAIN out : out[i] \in Names(listing.of)

\* the hooks run before the i-th event
HooksBefore(i) == {j \in 1..(i - 1) : trace[j].kind = "hook"}

\* the hooks run by the stage calls before the one of the i-th event
EarlierHooks(i) == {j \in HooksBefore(i) : trace[j].op < trace[i].op}

\* the value the last hook of the earlier stage calls left in cpus
CpusLeft(i) ==
    LET j == CHOOSE k \in EarlierHooks(i) : \A m \in EarlierHooks(i) : m <= k
    IN trace[j].cpus

\* a hook of an earlier stage call left cpus other than it was constructed
ChangedByEarlierStage(i) ==
    EarlierHooks(i) # {} /\ CpusLeft(i) # inst.cpus

\* C23: the arguments of the external command of a stage are substituted
\* when the stage runs: after a hook of an earlier stage changed an
\* attribute, the command of a later stage carries the changed value.
C23_SubstitutionAtStageTime ==
    \A i \in DOMAIN trace :
        (trace[i].kind = "cmd" /\ ChangedByEarlierStage(i))
            => trace[i].args =
                 format_all(trace[i].templates,
                            [Constructed(inst) EXCEPT !.cpus = CpusLeft(i)])

C23_Witness ==
    \E i \in DOMAIN trace :
        /\ trace[i].kind = "cmd" /\ ChangedByEarlierStage(i)
        /\ \E k \in DOMAIN trace[i].args :
              trace[i].args[k] = <<"-j", CpusLeft(i)>>

\* no hook run before the i-th event assigned cpus another value
CpusUntouched(i) == \A j \in HooksBefore(i) : trace[j].cpus = inst.cpus

ArgsOf(c) ==
    {computed[c].configure.args[i] : i \in DOMAIN computed[c].configure.args}
      \cup {computed[c].install.args[i] : i \in DOMAIN computed[c].install.args}

\* the path an option must carry for the prefix and the sysroot of the run
ExpectedPath(option) ==
    CASE option = "--prefix=" -> toolchain.prefix
      [] option = "--with-sysroot=" -> toolchain.prefix \o <<"rootfs">>
      [] option = "--with-headers=" ->
           toolchain.prefix \o <<"rootfs", "usr", "include">>
      [] option = "--with-binutils=" -> toolchain.prefix \o <<"bin">>
      [] option = "install_root=" -> toolchain.prefix \o <<"rootfs">>
      [] option = "INSTALL_HDR_PATH=" ->
           toolchain.prefix \o <<"rootfs", "usr">>

PathOptions ==
    {"--prefix=", "--with-sysroot=", "--with-headers=", "--with-binutils=",
     "install_root=", "INSTALL_HDR_PATH="}

\* C25: every stage of a run is given the prefix of the run and the sysroot
\* <prefix>/rootfs, and the kernel headers go to <sysroot>/usr: no two
\* components disagree on either path.
C25_OneSysrootPerRun ==
    \A c \in Components :
        /\ (objects[c].constructed /\ "sysroot" \in DOMAIN objects[c])
               => objects[c].sysroot = toolchain.prefix \o <<"rootfs">>
        /\ \A a \in ArgsOf(c) :
               a.option \in PathOptions
                   => a.lead = "" /\ a.value = ExpectedPath(a.option)

\* C26: the install command of Glibc is given install_root = <prefix>/rootfs.
C26_GlibcInstallsIntoSysroot ==
    computed["Glibc"].install # NotRun
        => /\ computed["Glibc"].install.kind = "args"
           /\ \E a \in ArgsOf("Glibc") :
                 /\ a.option = "install_root=" /\ a.lead = ""
                 /\ a.value = toolchain.prefix \o <<"rootfs">>

\* C27: two components of a run, which differ in project name or version,
\* have different build directories; so have the bootstrap and the final
\* compiler at one version.
C27_BuildDirPerNameAndVersion ==
    \A c, d \in Components :
        (c # d /\ objects[c].constructed /\ objects[d].constructed
           /\ <<ProjectName(c), toolchain.version[c]>>
                  # <<ProjectName(d), toolchain.version[d]>>)
            => objects[c].build_dir # objects[d].build_dir

\* C30: the kernel headers map aarch64 to arm64 and every other
\* architecture to itself, install is given ARCH=<mapped name>, and
\* configure and build are no-op successes without a process.
C30_KernelArchMapped ==
    LET mapped == IF toolchain.arch = "aarch64" THEN "arm64"
                  ELSE toolchain.arch
        k == "KernelHeaders"
    IN /\ objects[k].constructed => objects[k].arch = <<mapped>>
       /\ computed[k].configure \in {NotRun, NoOp}
       /\ computed[k].build \in {NotRun, NoOp}
       /\ computed[k].install # NotRun
              => /\ computed[k].install.kind = "args"
                 /\ \E a \in ArgsOf(k) :
                       a.option = "ARCH=" /\ a.lead = "" /\ a.value = <<mapped>>

\* the stages of main that were started and failed
FailedStages == {k \in DOMAIN stageLog : stageLog[k].returncode # SUCCESS}

\* C28: when a stage failed, main reports the result of the first stage
\* that failed and returns its exit status; main returns 0 only when no
\* stage failed.
C28_FirstFailureSurfaced ==
    mainPc = "done"
        => IF FailedStages = {} THEN mainErr = 0
           ELSE LET first == CHOOSE k \in FailedStages :
                                \A m \in FailedStages : k <= m
                IN /\ mainErr = stageLog[first].returncode
                   /\ mainOut = stageLog[first]

\* the events of the hooks of MakeProject itself: those of an instance
\* whose class overrides none, and clean
DefaultHookEvents ==
    {i \in DOMAIN trace :
        trace[i].kind = "hook"
          /\ (inst.hooks = "default" \/ trace[i].stage = "clean")}

\* C29: Ret() is a success with an empty argument vector, and the hooks
\* and clean of MakeProject return such a success, run no process and
\* leave every attribute of the instance as it was.
C29_DefaultHooksAreNoOps ==
    /\ Ret_default.returncode = SUCCESS /\ Ret_default.args = <<>>
    /\ \A i \in DefaultHookEvents :
          /\ trace[i].ret.returncode = SUCCESS /\ trace[i].ret.args = <<>>
          /\ trace[i].cpus = (IF i = 1 THEN inst.cpus ELSE trace[i - 1].cpus)
          /\ \A j \in DOMAIN trace :
                (j > i /\ trace[j].op = trace[i].op) => trace[j].kind # "cmd"
    /\ inst.hooks = "default" => selfDict = Constructed(inst)

C29_Witness ==
    /\ inst.hooks = "default"
    /\ \E i, j \in DefaultHookEvents :
          trace[i].stage = "pre_build" /\ trace[j].stage = "clean"


\* C31: for every constructed component, of project P at version v, the
\* source directory is the directory fetch_version(v) of P checks out into,
\* <source-root>/<P>/<v>, the bare mirror of P is <source-root>/<P>.git and
\* the build directory is <build-root>/<P>/<v>.
C31_LayoutConsistent ==
    \A c \in Components :
        objects[c].constructed =>
            LET P == ProjectName(c)
                v == toolchain.version[c]
                checkout == shallow_clone_output(toolchain.layout, P, v)
                bare == bare_output(toolchain.layout, P)
            IN /\ checkout.error = NoError
               /\ checkout.path = <<"source", P, v>>
               /\ objects[c].source_dir = checkout.path
               /\ bare.error = NoError
               /\ bare.path = <<"source", P \o ".git">>
               /\ objects[c].build_dir = <<"build", P, v>>


\* C32: cd raises nothing; on a missing directory it returns a result with
\* the error number of the failure and leaves the working directory where
\* it was, on an existing one it returns a success and enters it.  Stated
\* of the cd that pushd makes when update reaches it.
C32_CdReturnsResult ==
    \A r \in Runs :
        pc[r] = "pushd" =>
            LET o == cd(cwd[r], Mirror, fs[Mirror]) IN
            /\ o.error = NoError
            /\ fs[Mirror] = "absent"
                 => o.ret.returncode = ENOENT /\ o.cwd = cwd[r]
            /\ fs[Mirror] # "absent"
                 => o.ret.returncode = SUCCESS /\ o.cwd = Mirror


\* C33: update leaves the working directory and the directory stack as it
\* found them on every way out.  Only update changes them, so a run that
\* is back from update is in its first working directory, with an empty
\* directory stack.
C33_WorkingDirectoryRestored ==
    \A r \in Runs :
        (pc[r] = "idle" /\ lastCall[r].op = "update")
            => cwd[r] = Home /\ dirs[r] = <<>>


\* C34: a call of default_config(), default_make_args() or
\* default_install_args() leaves the list of every class as the class
\* statements made it, and returns what the first such call on that class
\* returns, however many calls were made before it.
C34_DefaultsRepeatable ==
    /\ heap = InitialHeap(hierarchy)
    /\ result.op = "default_args"
         => LET first == default_args(hierarchy, result.cls,
                                      InitialHeap(hierarchy))
            IN result.value = first.value /\ result.error = first.error


\* C35: every replacement field of the default templates of a constructed
\* component is an attribute its constructor has set, and no stage of it
\* fails on a field that str.format cannot resolve.
C35_PlaceholdersResolved ==
    \A c \in Components :
        objects[c].constructed =>
            /\ Placeholders(c) \subseteq InitAttributes(c)
            /\ computed[c].configure.error \notin {KeyError, IndexError}
            /\ computed[c].install.error \notin {KeyError, IndexError}


\* the components that derive a target triple
Targeted == {"Binutils", "StaticGCC", "Glibc", "GCC"}

\* C36: the target triple a stage derives for its --target / --host
\* arguments is the target triple of the run, which names the prefix, for
\* every architecture and organization.
C36_OneTargetTriple ==
    \A c \in Targeted :
        objects[c].constructed =>
            /\ objects[c].target_triplet = toolchain.target
            /\ toolchain.prefix[2] = triplet_text(objects[c].target_triplet)


\* the configuration parse_args built under the attribute name
CfgNamed(name) == CHOOSE e \in {cfgs[i] : i \in DOMAIN cfgs} : e.cfg = name

\* C37: once parse_args has built the configurations, every stage main
\* starts is passed the configuration of its own component, and that
\* configuration carries the version under the key "version".
C37_StageGetsOwnVersion ==
    parsePc > NumEntries =>
        \A layout \in Layouts :
            \A k \in DOMAIN StagesOf(layout) :
                LET stage == StagesOf(layout)[k]
                    passed == CfgNamed(main_cfg(layout, stage))
                IN /\ passed.cfg = stage \o "_cfg"
                   /\ passed.key = "version"
                   /\ CfgNamed(stage \o "_cfg").key = "version"


\* the value of cpus on entry to the stage call of the command i: what the
\* event before its pre hook left, or what the construction set
EntryCpus(i) == IF i <= 2 THEN inst.cpus ELSE trace[i - 2].cpus

\* C38: the arguments of the command of a stage are resolved before its
\* pre hook runs: the command, which follows its pre hook, carries the
\* attribute values of the entry to the stage, whatever the hook assigned.
C38_ResolvedBeforePreHook ==
    \A i \in DOMAIN trace :
        trace[i].kind = "cmd"
            => /\ i > 1
               /\ trace[i - 1].kind = "hook" /\ trace[i - 1].op = trace[i].op
               /\ trace[i - 1].stage = "pre_" \o trace[i].stage
               /\ trace[i].args =
                     format_all(trace[i].templates,
                                [Constructed(inst) EXCEPT !.cpus = EntryCpus(i)])

C38_Witness ==
    \E i \in DOMAIN trace :
        /\ trace[i].kind = "cmd" /\ i > 1
        /\ trace[i - 1].cpus # EntryCpus(i)
        /\ \E k \in DOMAIN trace[i].args :
              trace[i].args[k] = <<"-j", EntryCpus(i)>>


\* C39: get_hash looks the ref up in the local bare mirror exactly when the
\* mirror directory exists, and in the remote otherwise.
C39_LocalMirrorPreferred ==
    lookup.done => (lookup.repo = "bare_path" <=> lookup.present)

====
